---- MODULE Spec2Model ----
(***************************************************************************)
(* Glozzio API (index.js): an Express application over two MongoDB         *)
(* collections (users, products) with bcrypt password hashing and JWT      *)
(* bearer tokens.  Every route handler is one action; the values that go   *)
(* through JavaScript truthiness tests, BSON serialisation, bcrypt and     *)
(* jsonwebtoken are modelled by what these conversions do.                 *)
(***************************************************************************)
EXTENDS Integers, Sequences, FiniteSets, TLC

(* ---- bounds of the model ---- *)
\* ObjectIds the products specification can hand out (1..MaxIds).
MaxIds == 3
\* User documents the store holds at most.
MaxUsers == 2
\* Access tokens kept by clients at the same time.
MaxTokens == 2
\* Latest second (of the clock) at which the model lets time start to jump.
MaxIssueTime == 1
\* Overlapping POST /users requests in the interleaved specification.
NumClients == 2

(* ---- program constants ---- *)
\* jwt.sign(..., { expiresIn: "1h" }): seconds.
ExpiresIn == 3600
\* bcrypt.hash(password, 12): cost factor.
BcryptRounds == 12

VARIABLES
    users,          \* documents of db.collection('users')
    products,       \* documents of db.collection('products')
    nextId,         \* next ObjectId the process or the store generates
    now,            \* the clock, in seconds (Math.floor(Date.now() / 1000))
    issued,         \* access tokens handed out by POST /login
    server,         \* "starting" until app.listen's callback has set the
                    \* collection handles, then "ready"; "exited" after
                    \* process.exit(1)
    dbUp,           \* the store answers (no storage/connectivity failure)
    req,            \* the last request handled
    res,            \* its response
    prevUsers,      \* users before the last request
    prevProducts,   \* products before the last request
    deletedIds,     \* ids of the products DELETE /products/:id removed
    pc,             \* interleaved POST /users: position of each request
    local,          \* interleaved POST /users: locals of each request
    interleaved     \* an insert ran between another request's lookup and insert

vars == <<users, products, nextId, now, issued, server, dbUp, req, res,
          prevUsers, prevProducts, deletedIds, pc, local, interleaved>>

(* ---- JavaScript / JSON values ---- *)
Undefined == [t |-> "undefined"]
Null == [t |-> "null"]
NaN == [t |-> "NaN"]
Str(s) == [t |-> "string", s |-> s]
Num(n) == [t |-> "number", n |-> n]

\* `!v` of JavaScript.
Falsy(v) ==
    \/ v.t \in {"undefined", "null", "NaN"}
    \/ (v.t = "string" /\ v.s = "")
    \/ (v.t = "number" /\ v.n = 0)

\* Number(v) on the values of the model: a number is itself, a numeric string
\* is parsed, the empty string is 0, anything else is NaN.
ToNumber(v) ==
    IF v.t = "number" THEN v
    ELSE IF v.t = "string"
         THEN (IF v.s = "4" THEN Num(4) ELSE IF v.s = "" THEN Num(0) ELSE NaN)
    ELSE IF v.t = "null" THEN Num(0)
    ELSE NaN

\* BSON serialisation of a field value: undefined is written as null.
ToBson(v) == IF v = Undefined THEN Null ELSE v

(* ---- bcrypt ---- *)
\* bcrypt.hash rejects unless data is a string.
Hashable(password) == password.t = "string"

BcryptDigest(salt, plain) == <<"bcrypt", BcryptRounds, salt, plain>>

BcryptHash(password, salt) ==
    [alg |-> "2b", cost |-> BcryptRounds, salt |-> salt,
     digest |-> BcryptDigest(salt, password.s)]

BcryptCompare(password, hash) ==
    hash.digest = BcryptDigest(hash.salt, password.s)

(* ---- jsonwebtoken ---- *)
TOKEN_SECRET == "server-secret"

HS256(payload, secret) == <<"HS256", secret, payload>>

\* jwt.sign: iat is the clock at signing, exp = iat + expiresIn.
JwtSign(claims, secret, expiresIn, timestamp) ==
    LET payload == [user_id |-> claims.user_id, email |-> claims.email,
                    iat |-> timestamp, exp |-> timestamp + expiresIn]
    IN [t |-> "jwt", payload |-> payload, sig |-> HS256(payload, secret)]

JwtInvalid == [err |-> TRUE]

\* jwt.verify: malformed, bad signature and expired (clockTimestamp >= exp)
\* all end in err.
JwtVerify(token, secret, clockTimestamp) ==
    IF token.t # "jwt" THEN JwtInvalid
    ELSE IF token.sig # HS256(token.payload, secret) THEN JwtInvalid
    ELSE IF clockTimestamp >= token.payload.exp THEN JwtInvalid
    ELSE [err |-> FALSE, decoded |-> token.payload]

\* generateAccessToken with the lifetime given in milliseconds.
generateAccessTokenMillis(id, email) ==
    JwtSign([user_id |-> id, email |-> email], TOKEN_SECRET, ExpiresIn * 1000, now)

generateAccessToken(id, email) ==
    JwtSign([user_id |-> id, email |-> email], TOKEN_SECRET, ExpiresIn, now)

(* ---- store ---- *)
\* A store call throws when the collection handle is still undefined or the
\* store does not answer.
StoreFails == server # "ready" \/ ~dbUp

\* findOne with a filter on a field no user document has: never a match.
FindUserByWrongField(email) == Null

\* usersCollection.findOne({ email }): the first matching document in
\* insertion order, Null when there is none.
FindUserByEmail(email) ==
    LET hits == {u \in users : u.email = ToBson(email)}
    IN IF hits = {} THEN Null
       ELSE CHOOSE u \in hits : \A v \in hits : u._id <= v._id

(* ---- responses ---- *)
NoResponse == [status |-> 0, body |-> [k |-> "none"], by |-> "none"]
Json(status, body) == [status |-> status, body |-> body, by |-> "handler"]
Message(status, text) == Json(status, [k |-> "message", message |-> text])
Caught500(text) ==
    [status |-> 500, body |-> [k |-> "error", error |-> text], by |-> "catch"]
\* A rejected promise of an async handler without try/catch: the framework
\* leaves the request unanswered (Express 4) or answers with its own error
\* page (Express 5).
Unhandled ==
    {NoResponse,
     [status |-> 500, body |-> [k |-> "html"], by |-> "framework"]}

Snapshot ==
    /\ prevUsers' = users
    /\ prevProducts' = products

RaceIdle == UNCHANGED <<pc, local, interleaved>>
KeepDeleted == UNCHANGED deletedIds
EnvSame == UNCHANGED <<server, dbUp>>

(* ---- POST /login ---- *)
Login(email, password) ==
    /\ req' = [route |-> "POST /login", email |-> email, password |-> password,
               at |-> now,
               storeFailed |-> ~(Falsy(email) \/ Falsy(password)) /\ StoreFails]
    /\ Snapshot
    /\ UNCHANGED <<users, products, nextId, now>>
    /\ EnvSame /\ RaceIdle /\ KeepDeleted
    /\ IF Falsy(email) \/ Falsy(password)
       THEN /\ res' = Message(400, "Email and password are required")
            /\ UNCHANGED issued
       ELSE IF StoreFails
       THEN /\ res' \in Unhandled
            /\ UNCHANGED issued
       ELSE LET user == FindUserByEmail(email)
            IN IF user = Null
               THEN /\ res' = Message(404, "User not found")
                    /\ UNCHANGED issued
               ELSE IF ~BcryptCompare(password, user.password)
               THEN /\ res' = Message(401, "Invalid password")
                    /\ UNCHANGED issued
               ELSE LET accessToken == generateAccessToken(user._id, user.email)
                    IN /\ accessToken \in issued \/ Cardinality(issued) < MaxTokens
                       /\ res' = Json(200, [k |-> "token", accessToken |-> accessToken])
                       /\ issued' = issued \cup {accessToken}

(* ---- POST /users ---- *)
CreateUser(email, password, salt) ==
    /\ req' = [route |-> "POST /users", email |-> email, password |-> password,
               at |-> now, storeFailed |-> StoreFails]
    /\ Snapshot
    /\ UNCHANGED <<products, now, issued>>
    /\ EnvSame /\ RaceIdle /\ KeepDeleted
    /\ IF StoreFails
       THEN /\ res' = Caught500("Internal Server Error")
            /\ UNCHANGED <<users, nextId>>
       ELSE IF FindUserByEmail(email) # Null
       THEN /\ res' = Message(400, "User already exists")
            /\ UNCHANGED <<users, nextId>>
       ELSE IF ~Hashable(password)
       THEN /\ res' = Caught500("Internal Server Error")
            /\ UNCHANGED <<users, nextId>>
       ELSE /\ Cardinality(users) < MaxUsers
            /\ users' = users \cup
                 {[_id |-> nextId, email |-> ToBson(email),
                   password |-> BcryptHash(password, salt)]}
            /\ nextId' = nextId + 1
            /\ res' = Json(201, [k |-> "created",
                                 message |-> "New user account created successfully",
                                 insertedId |-> nextId])

(* ---- GET /users ---- *)
GetUsers ==
    /\ req' = [route |-> "GET /users", at |-> now, storeFailed |-> StoreFails]
    /\ Snapshot
    /\ UNCHANGED <<users, products, nextId, now, issued>>
    /\ EnvSame /\ RaceIdle /\ KeepDeleted
    /\ res' = IF StoreFails THEN Caught500("Internal server error")
              ELSE Json(200, [k |-> "docs", docs |-> users])

(* ---- body values of the model ---- *)
BodyEmails == {Str("a@x.com"), Str("b@x.com"), Undefined}
BodyPasswords == {Str("pw"), Str("xx"), Str(""), Undefined}
Salts == {"s1", "s2"}

Clients == 1..NumClients
NoLocals == [email |-> Undefined, password |-> Undefined, existingUser |-> Null,
             hashedPassword |-> Null, status |-> 0]

InitCommon ==
    /\ users = {}
    /\ products = {}
    /\ nextId = 1
    /\ now = 0
    /\ issued = {}
    /\ req = [route |-> "none"]
    /\ res = NoResponse
    /\ prevUsers = {}
    /\ prevProducts = {}
    /\ deletedIds = {}
    /\ pc = [c \in Clients |-> "idle"]
    /\ local = [c \in Clients |-> NoLocals]
    /\ interleaved = FALSE

\* The server after app.listen's callback has finished: collections set.
Init ==
    /\ InitCommon
    /\ server = "ready"
    /\ dbUp = TRUE

Next ==
    \/ \E e \in BodyEmails, p \in BodyPasswords : Login(e, p)
    \/ \E e \in BodyEmails, p \in BodyPasswords, s \in Salts : CreateUser(e, p, s)
    \/ GetUsers

Spec == Init /\ [][Next]_vars

(* ---- Authorization header ---- *)
\* The header as the sequence authHeader.split(' ') yields; a segment is a
\* word, a token, any other non-empty text, or the empty string.
Word(w) == [t |-> "word", w |-> w]
EmptySeg == [t |-> "empty"]
Garbage == [t |-> "garbage"]
NoHeader == [present |-> FALSE, segs |-> <<>>]
Header(segs) == [present |-> TRUE, segs |-> segs]

\* authHeader && authHeader.split(' ')[1]
ExtractToken(header) ==
    IF ~header.present THEN Undefined
    ELSE IF header.segs = <<EmptySeg>> THEN EmptySeg
    ELSE IF Len(header.segs) >= 2 THEN header.segs[2]
    ELSE Undefined

\* !token
NoToken(token) == token.t \in {"undefined", "empty"}

(* ---- JWT middleware and GET /profile ---- *)
Forbidden == [status |-> 403, body |-> [k |-> "text", text |-> "Forbidden"],
              by |-> "verifyToken"]

\* verifyToken with the `if (err)` test lost: next() is called whatever
\* jwt.verify reports.
verifyTokenIgnoringErr(header) ==
    LET token == ExtractToken(header)
    IN IF NoToken(token) THEN Forbidden
       ELSE LET v == JwtVerify(token, TOKEN_SECRET, now)
            IN Json(200, [k |-> "profile", success |-> TRUE,
                          message |-> "This is a protected route",
                          user |-> IF v.err THEN Undefined ELSE v.decoded])

\* The outcome of verifyToken followed, when it calls next(), by the handler.
verifyToken(header) ==
    LET token == ExtractToken(header)
    IN IF NoToken(token) THEN Forbidden
       ELSE LET v == JwtVerify(token, TOKEN_SECRET, now)
            IN IF v.err THEN Forbidden
               ELSE Json(200, [k |-> "profile", success |-> TRUE,
                               message |-> "This is a protected route",
                               user |-> v.decoded])

Profile(header) ==
    /\ req' = [route |-> "GET /profile", header |-> header, at |-> now,
               storeFailed |-> FALSE]
    /\ res' = verifyToken(header)
    /\ Snapshot
    /\ UNCHANGED <<users, products, nextId, now, issued>>
    /\ EnvSame /\ RaceIdle /\ KeepDeleted

(* ---- the clock ---- *)
TimePoints ==
    (0..MaxIssueTime) \cup
    {i + ExpiresIn + d : i \in 0..MaxIssueTime, d \in {-1, 0, 1}}

Tick(t) ==
    /\ t > now
    /\ now' = t
    /\ UNCHANGED <<users, products, nextId, issued, req, res, prevUsers,
                   prevProducts>>
    /\ EnvSame /\ RaceIdle /\ KeepDeleted

(* ---- what a client may present ---- *)
\* An issued token with its expiry pushed back, the signature kept.
Tampered(token) == [token EXCEPT !.payload.exp = @ + ExpiresIn]
\* An issued token's payload signed with a guessed secret.
Resigned(token) == [token EXCEPT !.sig = HS256(token.payload, "guess")]

Presentable ==
    issued \cup {Tampered(k) : k \in issued} \cup {Resigned(k) : k \in issued}
           \cup {Garbage}

Headers ==
    {NoHeader, Header(<<EmptySeg>>), Header(<<Word("Bearer")>>)}
    \cup {Header(<<Word(w), k>>) : w \in {"Bearer", "Basic"}, k \in Presentable}
    \cup {Header(<<k>>) : k \in issued}
    \cup {Header(<<Word("Bearer"), EmptySeg, k>>) : k \in issued}

AuthEmails == {Str("a@x.com"), Str("b@x.com")}
AuthPasswords == {Str("pw")}
AuthSalts == {"s1"}

NextAuth ==
    \/ \E e \in AuthEmails, p \in AuthPasswords : Login(e, p)
    \/ \E e \in AuthEmails, p \in AuthPasswords, s \in AuthSalts : CreateUser(e, p, s)
    \/ \E h \in Headers : Profile(h)
    \/ \E t \in TimePoints : Tick(t)

SpecAuth == Init /\ [][NextAuth]_vars
(* ---- products ---- *)
Arr(items) == [t |-> "array", items |-> items]

\* The :id route parameter: 24 hex digits naming ObjectId n, or other text.
HexId(n) == [t |-> "hex24", n |-> n]
BadId == [t |-> "text"]
\* new ObjectId(param) throws unless the text is a well-formed id.
ParsesAsObjectId(param) == param.t = "hex24"

\* res.status(s).json(v): JSON.stringify(undefined) is undefined, and the
\* response then has no body.
SendJson(status, v) ==
    Json(status, IF v = Undefined THEN [k |-> "empty"] ELSE [k |-> "json", value |-> v])

ErrorBody(status, text) == Json(status, [k |-> "error", error |-> text])

\* The filter left empty: every document matches.
MatchingAny(id) == products

\* The documents the filter { _id: ObjectId(id) } matches.
Matching(id) == {d \in products : d._id = id}

\* The one document a findOne, updateOne or deleteOne with that filter acts
\* on, Null when none matches.
FindProduct(id) ==
    IF Matching(id) = {} THEN Null
    ELSE CHOOSE d \in Matching(id) : \A e \in Matching(id) : d._id <= e._id

\* { $push: { reviews: newReview } }: appends to an array, creates the array
\* when the field is absent, and is a write error on any other value.
PushFails(doc) == doc.reviews.t \notin {"array", "undefined"}
Push(doc, review) ==
    [doc EXCEPT !.reviews =
        IF @.t = "array" THEN Arr(Append(@.items, review)) ELSE Arr(<<review>>)]

(* ---- GET /products ---- *)
GetProducts ==
    /\ req' = [route |-> "GET /products", at |-> now, storeFailed |-> StoreFails]
    /\ Snapshot
    /\ UNCHANGED <<users, products, nextId, now, issued>>
    /\ EnvSame /\ RaceIdle /\ KeepDeleted
    /\ res' = IF StoreFails THEN Caught500("Internal server error")
              ELSE Json(200, [k |-> "docs", docs |-> products])

(* ---- POST /products ---- *)
CreateProduct(payload) ==
    /\ req' = [route |-> "POST /products", payload |-> payload, at |-> now,
               storeFailed |-> StoreFails]
    /\ Snapshot
    /\ UNCHANGED <<users, now, issued>>
    /\ EnvSame /\ RaceIdle /\ KeepDeleted
    /\ IF StoreFails
       THEN /\ res' = Caught500("Internal server error")
            /\ UNCHANGED <<products, nextId>>
       ELSE /\ nextId <= MaxIds
            /\ products' = products \cup
                 {[_id |-> nextId, name |-> payload.name, reviews |-> payload.reviews]}
            /\ nextId' = nextId + 1
            /\ res' = Json(201, [k |-> "created",
                                 message |-> "Product created successfully",
                                 insertedId |-> nextId])

(* ---- DELETE /products/:id ---- *)
DeleteProduct(id) ==
    /\ req' = [route |-> "DELETE /products/:id", id |-> id, at |-> now,
               storeFailed |-> ParsesAsObjectId(id) /\ StoreFails]
    /\ Snapshot
    /\ UNCHANGED <<users, nextId, now, issued>>
    /\ EnvSame /\ RaceIdle
    /\ IF ~ParsesAsObjectId(id) \/ StoreFails
       THEN /\ res' = Caught500("Internal server error")
            /\ UNCHANGED <<products, deletedIds>>
       ELSE LET doc == FindProduct(id.n)
            IN IF doc = Null
               THEN /\ res' = ErrorBody(404, "Product not found")
                    /\ UNCHANGED <<products, deletedIds>>
               ELSE /\ products' = products \ {doc}
                    /\ deletedIds' = deletedIds \cup {id.n}
                    /\ res' = Json(204, [k |-> "empty"])

(* ---- POST /products/:id/reviews ---- *)
\* The validation with && in place of ||: only a body with all three
\* fields missing is refused.
MissingAllFields(user, rating, comment) ==
    Falsy(user) /\ Falsy(rating) /\ Falsy(comment)

\* !user || !rating || !comment
MissingFields(user, rating, comment) ==
    Falsy(user) \/ Falsy(rating) \/ Falsy(comment)

AddReview(id, user, rating, comment) ==
    LET invalid == MissingFields(user, rating, comment)
        newReview == [review_id |-> nextId, user |-> user,
                      rating |-> ToNumber(rating), comment |-> comment,
                      date |-> now]
    IN
    /\ req' = [route |-> "POST /products/:id/reviews", id |-> id, user |-> user,
               rating |-> rating, comment |-> comment, at |-> now,
               storeFailed |-> ~invalid /\ ParsesAsObjectId(id) /\ StoreFails]
    /\ Snapshot
    /\ UNCHANGED <<users, now, issued>>
    /\ EnvSame /\ RaceIdle /\ KeepDeleted
    /\ IF invalid
       THEN /\ res' = ErrorBody(400, "Missing required fields")
            /\ UNCHANGED <<products, nextId>>
       ELSE /\ nextId <= MaxIds
            /\ nextId' = nextId + 1
            /\ IF ~ParsesAsObjectId(id) \/ StoreFails
               THEN /\ res' = Caught500("Internal server error")
                    /\ UNCHANGED products
               ELSE LET doc == FindProduct(id.n)
                    IN IF doc = Null
                       THEN /\ res' = ErrorBody(404, "Product not found")
                            /\ UNCHANGED products
                       ELSE IF PushFails(doc)
                       THEN /\ res' = Caught500("Internal server error")
                            /\ UNCHANGED products
                       ELSE /\ products' = (products \ {doc}) \cup {Push(doc, newReview)}
                            /\ res' = Json(201, [k |-> "review",
                                                 message |-> "Review added successfully",
                                                 reviewId |-> newReview.review_id])

(* ---- GET /products/:id/reviews ---- *)
ListReviews(id) ==
    /\ req' = [route |-> "GET /products/:id/reviews", id |-> id, at |-> now,
               storeFailed |-> ParsesAsObjectId(id) /\ StoreFails]
    /\ Snapshot
    /\ UNCHANGED <<users, products, nextId, now, issued>>
    /\ EnvSame /\ RaceIdle /\ KeepDeleted
    /\ IF ~ParsesAsObjectId(id) \/ StoreFails
       THEN res' = Caught500("Internal server error")
       ELSE LET product == FindProduct(id.n)
            IN IF product = Null
               THEN res' = ErrorBody(404, "Product not found")
               ELSE res' = SendJson(200, product.reviews)

(* ---- request values of the products specification ---- *)
Payloads ==
    {[name |-> "lip balm", reviews |-> r] : r \in {Undefined, Arr(<<>>), Str("none")}}
IdParams == {HexId(n) : n \in 1..MaxIds} \cup {BadId}
\* Review bodies: two complete ones, one with the rating 0, and bodies with
\* a field absent, null or empty.
ReviewBodies ==
    {[user |-> Str("ann"), rating |-> Num(5), comment |-> Str("fine")],
     [user |-> Str("ann"), rating |-> Str("4"), comment |-> Str("fine")],
     [user |-> Str("ann"), rating |-> Num(0), comment |-> Str("fine")],
     [user |-> Undefined, rating |-> Num(5), comment |-> Str("fine")],
     [user |-> Str(""), rating |-> Num(5), comment |-> Str("fine")],
     [user |-> Str("ann"), rating |-> Null, comment |-> Str("fine")],
     [user |-> Str("ann"), rating |-> Num(5), comment |-> Str("")],
     [user |-> Undefined, rating |-> Undefined, comment |-> Undefined]}

NextProducts ==
    \/ GetProducts
    \/ \E p \in Payloads : CreateProduct(p)
    \/ \E i \in IdParams : DeleteProduct(i)
    \/ \E i \in IdParams, b \in ReviewBodies :
          AddReview(i, b.user, b.rating, b.comment)
    \/ \E i \in IdParams : ListReviews(i)
    \/ CreateUser(Str("a@x.com"), Str("pw"), "s1")

SpecProducts == Init /\ [][NextProducts]_vars

(* ---- POST /users, one await at a time ---- *)
RaceFrame == UNCHANGED <<products, now, issued, server, dbUp, req, res,
                         prevUsers, prevProducts, deletedIds>>

\* The request arrives; the handler reads the body and calls findOne.
RaceReceive(c, email, password) ==
    /\ pc[c] = "idle"
    /\ pc' = [pc EXCEPT ![c] = "findOne"]
    /\ local' = [local EXCEPT ![c] = [NoLocals EXCEPT !.email = email,
                                                      !.password = password]]
    /\ UNCHANGED <<users, nextId, interleaved>>
    /\ RaceFrame

\* await usersCollection.findOne({ email }) and the test of its result.
RaceFindOne(c) ==
    /\ pc[c] = "findOne"
    /\ LET existingUser == FindUserByEmail(local[c].email)
       IN IF existingUser # Null
          THEN /\ local' = [local EXCEPT ![c].existingUser = existingUser,
                                         ![c].status = 400]
               /\ pc' = [pc EXCEPT ![c] = "done"]
          ELSE /\ local' = [local EXCEPT ![c].existingUser = Null]
               /\ pc' = [pc EXCEPT ![c] = "hash"]
    /\ UNCHANGED <<users, nextId, interleaved>>
    /\ RaceFrame

\* await bcrypt.hash(password, 12); a rejection is caught and answered 500.
RaceHash(c, salt) ==
    /\ pc[c] = "hash"
    /\ IF Hashable(local[c].password)
       THEN /\ local' = [local EXCEPT ![c].hashedPassword =
                                         BcryptHash(local[c].password, salt)]
            /\ pc' = [pc EXCEPT ![c] = "insertOne"]
       ELSE /\ local' = [local EXCEPT ![c].status = 500]
            /\ pc' = [pc EXCEPT ![c] = "done"]
    /\ UNCHANGED <<users, nextId, interleaved>>
    /\ RaceFrame

\* insertOne against a unique index on email: a second record with a stored
\* email is a write error, caught and answered 500.
RaceInsertOneUnique(c) ==
    /\ pc[c] = "insertOne"
    /\ IF \E u \in users : u.email = ToBson(local[c].email)
       THEN /\ local' = [local EXCEPT ![c].status = 500]
            /\ UNCHANGED <<users, nextId>>
       ELSE /\ users' = users \cup
                   {[_id |-> nextId, email |-> ToBson(local[c].email),
                     password |-> local[c].hashedPassword]}
            /\ nextId' = nextId + 1
            /\ local' = [local EXCEPT ![c].status = 201]
    /\ pc' = [pc EXCEPT ![c] = "done"]
    /\ interleaved' = (interleaved \/
                       \E d \in Clients \ {c} : pc[d] \in {"hash", "insertOne"})
    /\ RaceFrame

\* await usersCollection.insertOne({ email, password: hashedPassword }) and
\* the 201 response.
RaceInsertOne(c) ==
    /\ pc[c] = "insertOne"
    /\ users' = users \cup {[_id |-> nextId, email |-> ToBson(local[c].email),
                             password |-> local[c].hashedPassword]}
    /\ nextId' = nextId + 1
    /\ local' = [local EXCEPT ![c].status = 201]
    /\ pc' = [pc EXCEPT ![c] = "done"]
    /\ interleaved' = (interleaved \/
                       \E d \in Clients \ {c} : pc[d] \in {"hash", "insertOne"})
    /\ RaceFrame

RaceEmails == {Str("a@x.com"), Str("b@x.com")}
RacePasswords == {Str("pw"), Undefined}

NextRace ==
    \/ \E c \in Clients, e \in RaceEmails, p \in RacePasswords : RaceReceive(c, e, p)
    \/ \E c \in Clients : RaceFindOne(c)
    \/ \E c \in Clients, s \in AuthSalts : RaceHash(c, s)
    \/ \E c \in Clients : RaceInsertOne(c)

SpecRace == Init /\ [][NextRace]_vars

(* ---- startup and store failures ---- *)
EnvFrame == UNCHANGED <<users, products, nextId, now, issued, req, res,
                        prevUsers, prevProducts, deletedIds>>

\* app.listen's callback: connectToDatabase() exits the process when the
\* connection fails, initializeCollections() sets the handles otherwise.
Startup ==
    /\ server = "starting"
    /\ server' = IF dbUp THEN "ready" ELSE "exited"
    /\ UNCHANGED dbUp
    /\ EnvFrame /\ RaceIdle

Outage ==
    /\ dbUp
    /\ dbUp' = FALSE
    /\ UNCHANGED server
    /\ EnvFrame /\ RaceIdle

Recover ==
    /\ ~dbUp
    /\ dbUp' = TRUE
    /\ UNCHANGED server
    /\ EnvFrame /\ RaceIdle

\* The process listens before the store is connected.
InitFail ==
    /\ InitCommon
    /\ server = "starting"
    /\ dbUp \in BOOLEAN

FailIds == {HexId(1), BadId}

\* Requests are served from the moment the process listens until it exits.
Serving == server # "exited"

NextFail ==
    \/ Startup
    \/ Outage
    \/ Recover
    \/ Serving /\ \E e \in {Str("a@x.com"), Undefined} : Login(e, Str("pw"))
    \/ Serving /\ CreateUser(Str("a@x.com"), Str("pw"), "s1")
    \/ Serving /\ GetUsers
    \/ Serving /\ GetProducts
    \/ Serving /\ CreateProduct([name |-> "lip balm", reviews |-> Undefined])
    \/ Serving /\ \E i \in FailIds : DeleteProduct(i)
    \/ Serving /\ \E i \in FailIds, r \in {Num(5), Num(0)} :
                      AddReview(i, Str("ann"), r, Str("fine"))
    \/ Serving /\ \E i \in FailIds : ListReviews(i)

SpecFail == InitFail /\ [][NextFail]_vars

(***************************************************************************)
(* Properties                                                              *)
(***************************************************************************)
NoDuplicateEmails ==
    \A u, v \in users : u.email = v.email => u = v

\* The header has a second, non-empty space-separated field: a token in the
\* place the bearer scheme puts it.
CarriesToken(header) ==
    /\ header.present
    /\ Len(header.segs) >= 2
    /\ header.segs[2] # EmptySeg

\* The header carries a token that POST /login handed out and whose window
\* still holds at clock time `at`.
Genuine(header, at) ==
    /\ CarriesToken(header)
    /\ header.segs[2] \in issued
    /\ at < header.segs[2].payload.exp

\* C1: a GET /profile request with no Authorization header, with a header
\* that carries no token in the bearer position, or with a token the
\* verifier rejects (malformed, wrong signature, expired) is answered by the
\* middleware with the one generic 403 and never reaches the handler; the
\* handler runs only for a token that verified, and answers with the claims
\* of that token.
C1_ForbiddenUnlessVerified ==
    req.route = "GET /profile" =>
        LET h == req.header
        IN /\ res.by \in {"verifyToken", "handler"}
           /\ ~h.present => res = Forbidden
           /\ ~CarriesToken(h) => res = Forbidden
           /\ (CarriesToken(h) /\ JwtVerify(h.segs[2], TOKEN_SECRET, req.at).err)
                  => res = Forbidden
           /\ ~Genuine(h, req.at) => res = Forbidden
           /\ res.by = "verifyToken" => res = Forbidden
           /\ res.by = "handler" =>
                  /\ Genuine(h, req.at)
                  /\ res.status = 200
                  /\ res.body.user = h.segs[2].payload
           /\ users = prevUsers

\* C1 witness: a token whose signature or payload was forged is presented
\* as "Bearer <token>" and answered 403 by the middleware.
C1_Witness ==
    /\ req.route = "GET /profile"
    /\ CarriesToken(req.header)
    /\ req.header.segs[2].t = "jwt"
    /\ req.header.segs[2] \notin issued
    /\ res = Forbidden

\* C2: every token POST /login hands out carries the user's id and email and
\* exp = iat + 1 hour; it verifies, yielding exactly these claims, while the
\* clock is before exp, and is invalid from exp on; a GET /profile carrying
\* it is answered 200 with the claims inside the window and 403 after it.
C2_ValidForOneHour ==
    /\ \A k \in issued :
          /\ k.payload.exp = k.payload.iat + 3600
          /\ \E u \in users : u._id = k.payload.user_id /\ u.email = k.payload.email
          /\ now < k.payload.exp =>
                JwtVerify(k, TOKEN_SECRET, now) = [err |-> FALSE, decoded |-> k.payload]
          /\ now >= k.payload.exp => JwtVerify(k, TOKEN_SECRET, now).err
    /\ (req.route = "POST /login" /\ res.status = 200) =>
          /\ res.body.accessToken \in issued
          /\ res.body.accessToken.payload.iat = req.at
          /\ res.body.accessToken.payload.email = req.email
    /\ \A k \in issued :
          (req.route = "GET /profile" /\ req.header = Header(<<Word("Bearer"), k>>)) =>
              /\ req.at < k.payload.exp =>
                    /\ res.status = 200
                    /\ res.body.user.user_id = k.payload.user_id
                    /\ res.body.user.email = k.payload.email
              /\ req.at >= k.payload.exp => res = Forbidden

\* C2 witness: an issued token is presented after its hour has passed and
\* the request is answered 403.
C2_Witness ==
    /\ req.route = "GET /profile"
    /\ CarriesToken(req.header)
    /\ req.header.segs[2] \in issued
    /\ req.at > req.header.segs[2].payload.iat + 3600
    /\ res = Forbidden

\* The user whose stored hash a login with (email, password) is compared to.
Matched(email) ==
    CHOOSE u \in prevUsers :
        /\ u.email = ToBson(email)
        /\ \A v \in prevUsers : v.email = ToBson(email) => u._id <= v._id

\* POST /login answers 400, 404, 401, 200 in this order of tests, and never
\* changes the user store.
LoginOrder ==
    req.route = "POST /login" =>
        /\ users = prevUsers
        /\ IF Falsy(req.email) \/ Falsy(req.password)
           THEN res = Message(400, "Email and password are required")
           ELSE IF \A u \in prevUsers : u.email # ToBson(req.email)
           THEN res = Message(404, "User not found")
           ELSE IF ~BcryptCompare(req.password, Matched(req.email).password)
           THEN res = Message(401, "Invalid password")
           ELSE /\ res.status = 200
                /\ res.body.accessToken.payload.user_id = Matched(req.email)._id
                /\ res.body.accessToken.payload.email = Matched(req.email).email

\* A user record that a successful POST /users with (email, password) left.
RegisteredWith(u, email, password) ==
    /\ u.email = ToBson(email)
    /\ Hashable(password)
    /\ BcryptCompare(password, u.password)

\* C3: POST /login answers 400 for a missing email or password, else 404
\* for an unknown email, else 401 for a password that does not verify, else
\* 200 with a token for the matched user; login with the email and password
\* of a successful registration answers 200, with the same email and another
\* password 401; login never changes the user store.
C3_LoginAfterRegistration ==
    /\ LoginOrder
    /\ req.route = "POST /login" =>
          \A u \in prevUsers :
              /\ RegisteredWith(u, req.email, req.password) => res.status = 200
              /\ (u.email = ToBson(req.email) /\ ~Falsy(req.password)
                  /\ ~BcryptCompare(req.password, u.password)) => res.status = 401

\* C4 as stated: a registration with a stored email answers 400 and changes
\* nothing, every registration with an email not yet stored answers 201 and
\* adds one record, and no two stored users share an email.
C4_AsStated ==
    /\ NoDuplicateEmails
    /\ req.route = "POST /users" =>
          IF \E u \in prevUsers : u.email = ToBson(req.email)
          THEN res = Message(400, "User already exists") /\ users = prevUsers
          ELSE /\ res.status = 201
               /\ \E u \in users \ prevUsers :
                     u.email = ToBson(req.email) /\ users = prevUsers \cup {u}

\* C4 amended: a registration with a stored email answers 400 and changes
\* nothing; with an email not yet stored and a string password it answers
\* 201 and adds exactly one record, which holds that email and a hash that
\* verifies the password; with an email not yet stored and no string
\* password it answers 500 and changes nothing; no two stored users share an
\* email.
C4_SequentialRegistration ==
    /\ NoDuplicateEmails
    /\ req.route = "POST /users" =>
          IF \E u \in prevUsers : u.email = ToBson(req.email)
          THEN res = Message(400, "User already exists") /\ users = prevUsers
          ELSE IF Hashable(req.password)
          THEN /\ res.status = 201
               /\ \E u \in users \ prevUsers :
                     /\ users = prevUsers \cup {u}
                     /\ u._id = res.body.insertedId
                     /\ \A v \in prevUsers : v._id # u._id
                     /\ RegisteredWith(u, req.email, req.password)
          ELSE /\ res = Caught500("Internal Server Error")
               /\ users = prevUsers

\* C4 witness: a second registration of a stored email is refused.
C4_Witness ==
    /\ req.route = "POST /users"
    /\ \E u \in prevUsers : u.email = ToBson(req.email)
    /\ res = Message(400, "User already exists")
    /\ users = prevUsers
    /\ Cardinality(users) = 2
\* A request field that is missing (undefined, null) or empty.
MissingOrEmpty(v) == v = Undefined \/ v = Null \/ v = Str("")

IsReviewRequest == req.route = "POST /products/:id/reviews"

ReviewsOf(doc) == IF doc.reviews.t = "array" THEN doc.reviews.items ELSE <<>>

\* The product that a request names by a well-formed id, before the request.
Named(id) == CHOOSE d \in prevProducts : d._id = id.n
Exists(id) == ParsesAsObjectId(id) /\ \E d \in prevProducts : d._id = id.n

\* C5: a review request in which user, rating or comment is missing or
\* empty is answered 400 and leaves every product, its review sequence
\* included, as it was.
C5_InvalidReviewRejected ==
    (IsReviewRequest /\ (\/ MissingOrEmpty(req.user)
                         \/ MissingOrEmpty(req.rating)
                         \/ MissingOrEmpty(req.comment))) =>
        /\ res = ErrorBody(400, "Missing required fields")
        /\ products = prevProducts
        /\ users = prevUsers

\* C5 witness: a review without a user is sent to a product that already
\* has a review, and is refused.
C5_Witness ==
    /\ IsReviewRequest
    /\ req.user = Undefined
    /\ ~MissingOrEmpty(req.rating) /\ ~MissingOrEmpty(req.comment)
    /\ Exists(req.id)
    /\ Len(ReviewsOf(Named(req.id))) = 1
    /\ res.status = 400
    /\ products = prevProducts

\* C6: for an existing product (with a review sequence or none yet) and a
\* review whose user, numeric rating and comment are all present and
\* non-empty, the request is answered 201 with a fresh review id, and the
\* product's review sequence is the previous one with one element appended
\* that holds the submitted user, rating and comment; all other products are
\* unchanged.
C6_ReviewAppended ==
    (/\ IsReviewRequest
     /\ Exists(req.id)
     /\ ~PushFails(Named(req.id))
     /\ ~MissingOrEmpty(req.user)
     /\ req.rating.t = "number"
     /\ ~MissingOrEmpty(req.comment)) =>
        /\ res.status = 201
        /\ \E d \in products :
              /\ d._id = req.id.n
              /\ products \ {d} = prevProducts \ {Named(req.id)}
              /\ Len(ReviewsOf(d)) = Len(ReviewsOf(Named(req.id))) + 1
              /\ SubSeq(ReviewsOf(d), 1, Len(ReviewsOf(d)) - 1) = ReviewsOf(Named(req.id))
              /\ LET r == ReviewsOf(d)[Len(ReviewsOf(d))]
                 IN /\ r.user = req.user
                    /\ r.rating = req.rating
                    /\ r.comment = req.comment
                    /\ r.review_id = res.body.reviewId

C8_ListReviews ==
    (req.route = "GET /products/:id/reviews" /\ ParsesAsObjectId(req.id)) =>
        IF ~Exists(req.id)
        THEN res = ErrorBody(404, "Product not found")
        ELSE ~PushFails(Named(req.id)) =>
                /\ res.status = 200
                /\ res.body = [k |-> "json", value |-> Arr(ReviewsOf(Named(req.id)))]
\* C9: when two registrations of one email both look the email up before
\* either inserts, both are answered 201 and the store holds two records
\* with that email; and the store holds two records with one email only if
\* an insert ran between another request's lookup and its insert.
C9_CheckThenInsertRace ==
    /\ \A c, d \in Clients :
          (/\ c # d
           /\ pc[c] = "done" /\ pc[d] = "done"
           /\ local[c].email = local[d].email
           /\ local[c].existingUser = Null /\ local[d].existingUser = Null
           /\ Hashable(local[c].password) /\ Hashable(local[d].password)) =>
              /\ local[c].status = 201
              /\ local[d].status = 201
              /\ \E u, v \in users :
                    /\ u # v
                    /\ u.email = local[c].email
                    /\ v.email = local[c].email
    /\ ~NoDuplicateEmails => interleaved
    /\ \A c \in Clients :
          (pc[c] = "done" /\ local[c].existingUser # Null) => local[c].status = 400

\* C9 witness: two overlapping registrations of one email have both been
\* answered 201 and the store holds two records with that email.
C9_Witness ==
    /\ \E c, d \in Clients :
          /\ c # d
          /\ pc[c] = "done" /\ pc[d] = "done"
          /\ local[c].status = 201 /\ local[d].status = 201
          /\ local[c].email = local[d].email
    /\ ~NoDuplicateEmails
    /\ interleaved

\* C10: whenever the store call of a request fails, the handler catches the
\* error and the request is answered with the generic 500.
C10_StoreFailureCaught ==
    (req.route # "none" /\ req.storeFailed) =>
        /\ res.status = 500
        /\ res.by = "catch"
        /\ res.body.k = "error"
====
